---- MODULE Spec2Model ----
(***************************************************************************)
(* Rentmap: the data-cleaning pipeline of src/src/data_processor.py        *)
(* (class DataProcessor) as a state machine, and the cached geocoding      *)
(* lookup of src/src/geocoder.py (class LocationGeocoder) as a second one  *)
(* (GeoSpec), each run with the other at rest.                             *)
(*                                                                         *)
(* The dataset self.df is a sequence of listing records plus the set of    *)
(* columns the frame carries.  A cell is an option: <<>> is pandas' NaN    *)
(* (missing), <<v>> a present value v.  A record of a frame that lacks a   *)
(* column holds <<>> in that field.                                        *)
(*                                                                         *)
(* Units.  price is an integer number of currency units.  area_sqft is     *)
(* held in HALF square feet, so that the median of an even number of       *)
(* whole-sqft areas is exact.  price_per_sqft is held in hundredths (the   *)
(* two decimals round(2) keeps), with inf = 1 / -1 for the IEEE            *)
(* infinities a float division by zero produces.                           *)
(* Text is a sequence of one-character strings.                            *)
(*                                                                         *)
(* Series.fillna(..., inplace=True) on self.df[col] is taken to write      *)
(* through to self.df, as it does in the pandas 1.x / 2.x the code was     *)
(* written for.                                                            *)
(***************************************************************************)
EXTENDS Integers, Sequences, FiniteSets, TLC

VARIABLES
    df,        \* self.df: the records, in row order
    columns,   \* self.df.columns
    pc,        \* the step run next, "done", "saved", or "raised"
    issues,    \* validate_data's list of warnings
    raw,       \* the rows of the CSV file at input_file (never written)
    rawcols,   \* the header of that file (never written)
    prev,      \* self.df as it was when the last stage started (history)
    prevcols,  \* self.df.columns when the last stage started (history)
    readable,  \* whether pd.read_csv can read the file (never written)
    raisedIn,  \* the step whose exception ended the run, "" if none
    saved,     \* the rows written to data/processed, <<>> before the save
    cache,       \* LocationGeocoder.cache: cache key -> result
    cache_file,  \* the content of data/geocode_cache.json ([] <=> no entry)
    gpc,         \* geocode_location: "idle" (no call running), "check_cache",
                 \* "attempt" (about to call the service)
    cache_key,   \* the key of the call running, or of the last call
    attempt,     \* the loop variable of the retry loop
    result,      \* what the last call returned: a result, or None
    outcome,     \* how the last call ended (history), "" before any call
    lookups,     \* calls of geolocator.geocode made by the call (history)
    cacheAtCall, \* self.cache when the call was made (history)
    loaded,      \* self.cache as load_cache returned it (never written)
    succeeded    \* the keys the service answered with a place (history)

\* the DataProcessor's variables and the LocationGeocoder's
dvars == <<df, columns, pc, issues, raw, rawcols, prev, prevcols,
           readable, raisedIn, saved>>
gvars == <<cache, cache_file, gpc, cache_key, attempt, result, outcome,
           lookups, cacheAtCall, loaded, succeeded>>

vars == <<df, columns, pc, issues, raw, rawcols, prev, prevcols,
          readable, raisedIn, saved,
          cache, cache_file, gpc, cache_key, attempt, result, outcome,
          lookups, cacheAtCall, loaded, succeeded>>

----------------------------------------------------------------------------
(* Bounds of the model *)

\* most records of a loaded dataset, per family of datasets (see Init)
MaxTextRecs == 2
MaxPriceRecs == 5
MaxRecs == 3
MaxMetricRecs == 2
\* longest text of the single-record free-text family
MaxStrLen == 5

----------------------------------------------------------------------------
(* Cells *)

None == <<>>
Some(v) == <<v>>
IsNull(c) == c = <<>>
Val(c) == c[1]

Range(s) == {s[i] : i \in 1..Len(s)}

\* the rows of s whose index is in K, in order, from row i on
RECURSIVE Take(_, _, _)
Take(s, K, i) ==
    IF i > Len(s) THEN <<>>
    ELSE (IF i \in K THEN <<s[i]>> ELSE <<>>) \o Take(s, K, i + 1)

Abs(x) == IF x < 0 THEN -x ELSE x

----------------------------------------------------------------------------
(* Text: str.strip, re.sub(r'\s+', ' '), str.title *)

Whitespace == {" ", "\t"}
LowerOf == [c \in {"a", "b", "x", "A", "B", "X"} |->
              CASE c \in {"a", "A"} -> "a"
                [] c \in {"b", "B"} -> "b"
                [] OTHER -> "x"]
UpperOf == [c \in {"a", "b", "x", "A", "B", "X"} |->
              CASE c \in {"a", "A"} -> "A"
                [] c \in {"b", "B"} -> "B"
                [] OTHER -> "X"]
Letters == DOMAIN LowerOf

\* str.strip(): leading and trailing whitespace removed
RECURSIVE LStrip(_)
LStrip(s) == IF s # <<>> /\ Head(s) \in Whitespace THEN LStrip(Tail(s)) ELSE s

RECURSIVE RStrip(_)
RStrip(s) ==
    IF s # <<>> /\ s[Len(s)] \in Whitespace
    THEN RStrip(SubSeq(s, 1, Len(s) - 1)) ELSE s

Strip(s) == RStrip(LStrip(s))

\* str.replace(r'\s+', ' ', regex=True): each maximal run of whitespace
\* becomes one space
RECURSIVE CollapseWs(_)
CollapseWs(s) ==
    IF s = <<>> THEN <<>>
    ELSE IF Head(s) \in Whitespace
         THEN <<" ">> \o CollapseWs(LStrip(s))
         ELSE <<Head(s)>> \o CollapseWs(Tail(s))

\* str.title(): a letter that follows a letter is lowercased, any other
\* letter is uppercased; other characters are kept
RECURSIVE TitleFrom(_, _)
TitleFrom(s, prevCased) ==
    IF s = <<>> THEN <<>>
    ELSE IF Head(s) \in Letters
         THEN <<IF prevCased THEN LowerOf[Head(s)] ELSE UpperOf[Head(s)]>>
              \o TitleFrom(Tail(s), TRUE)
         ELSE <<Head(s)>> \o TitleFrom(Tail(s), FALSE)

TitleCase(s) == TitleFrom(s, FALSE)

\* r'\s\s' in place of r'\s+': each pair of whitespace becomes one space
RECURSIVE CollapsePairs(_)
CollapsePairs(s) ==
    IF s = <<>> THEN <<>>
    ELSE IF Len(s) >= 2 /\ s[1] \in Whitespace /\ s[2] \in Whitespace
         THEN <<" ">> \o CollapsePairs(Tail(Tail(s)))
         ELSE <<Head(s)>> \o CollapsePairs(Tail(s))

SqueezePairs(s) == CollapsePairs(Strip(s))

\* normalized text: stripped, then whitespace runs collapsed
Squeeze(s) == CollapseWs(Strip(s))

----------------------------------------------------------------------------
(* remove_duplicates: drop_duplicates(subset=['title','location'],         *)
(* keep='first').  pandas compares missing cells as equal here.            *)

DuplicateKeyAllColumns(r) == r

DuplicateKey(r) == <<r.title, r.location>>

\* keep='last': a row survives when no later row has its key
IsLastOccurrence(s, i) ==
    \A j \in (i + 1)..Len(s) : DuplicateKey(s[j]) # DuplicateKey(s[i])

IsFirstOccurrence(s, i) ==
    \A j \in 1..(i - 1) : DuplicateKey(s[j]) # DuplicateKey(s[i])

DropDuplicates(s) == Take(s, {i \in 1..Len(s) : IsFirstOccurrence(s, i)}, 1)

----------------------------------------------------------------------------
(* handle_missing_values *)

CriticalFields == {"title", "price", "location"}

MissingAllCritical(r) == \A f \in CriticalFields : IsNull(r[f])

\* dropna(subset=critical_fields) drops a row with any of them missing
MissingCritical(r) == \E f \in CriticalFields : IsNull(r[f])

DropNa(s) == SelectSeq(s, LAMBDA r : ~MissingCritical(r))

\* the non-missing values of column f, with the rows that carry them
Present(s, f) == {i \in 1..Len(s) : ~IsNull(s[i][f])}
Values(s, f) == {Val(s[i][f]) : i \in Present(s, f)}
Count(s, f, v) == Cardinality({i \in Present(s, f) : Val(s[i][f]) = v})

\* Series.mode(): the most frequent non-missing values, ascending; [0] is
\* the lowest of them.  Defined only when the column has a value.
Modes(s, f) ==
    {v \in Values(s, f) : \A w \in Values(s, f) : Count(s, f, w) <= Count(s, f, v)}
\* the tie broken by row order: the most frequent value met first
Mode0FirstEncountered(s, f) ==
    LET first == CHOOSE i \in Present(s, f) :
                     /\ Val(s[i][f]) \in Modes(s, f)
                     /\ \A j \in Present(s, f) :
                            Val(s[j][f]) \in Modes(s, f) => i <= j
    IN  Val(s[first][f])

Mode0(s, f) == CHOOSE v \in Modes(s, f) : \A w \in Modes(s, f) : v <= w

\* the k-th smallest (k = 1..n) of the non-missing values of column f
Kth(s, f, k) ==
    CHOOSE v \in Values(s, f) :
        /\ Cardinality({i \in Present(s, f) : Val(s[i][f]) < v}) < k
        /\ k <= Cardinality({i \in Present(s, f) : Val(s[i][f]) <= v})

\* Series.median() over the non-missing values: the middle one, or the
\* mean of the two middle ones.  Defined only when the column has a value;
\* the areas loaded are whole square feet, so the mean is a whole number of
\* half square feet.
\* the upper middle value, with no mean of the two middle ones
MedianUpperMiddle(s, f) ==
    LET n == Cardinality(Present(s, f)) IN Kth(s, f, n \div 2 + 1)

Median(s, f) ==
    LET n == Cardinality(Present(s, f)) IN
    IF n % 2 = 1 THEN Kth(s, f, (n + 1) \div 2)
    ELSE (Kth(s, f, n \div 2) + Kth(s, f, n \div 2 + 1)) \div 2

\* Series.fillna(v): the missing cells of column f become v
FillNa(s, f, v) ==
    [i \in 1..Len(s) |->
        IF IsNull(s[i][f]) THEN [s[i] EXCEPT ![f] = Some(v)] ELSE s[i]]

\* self.df['bhk'].mode()[0] raises KeyError when mode() is empty
ModeRaises(s, cols) == "bhk" \in cols /\ Values(s, "bhk") = {}

FillBhk(s, cols) ==
    IF "bhk" \in cols THEN FillNa(s, "bhk", Mode0(s, "bhk")) ELSE s

\* the median of a column without a value is NaN, and fillna(NaN) fills
\* nothing
FillArea(s, cols) ==
    IF "area_sqft" \in cols /\ Values(s, "area_sqft") # {}
    THEN FillNa(s, "area_sqft", Median(s, "area_sqft")) ELSE s

\* impute first, drop afterwards: the statistics see the rows dropped later
HandleMissingImputeFirst(s, cols) ==
    DropNa(IF "area_sqft" \in cols /\ Values(s, "area_sqft") # {}
           THEN FillNa(FillBhk(s, cols), "area_sqft", Median(s, "area_sqft"))
           ELSE FillBhk(s, cols))

\* the drop phase, then the two imputations on what it left
HandleMissing(s, cols) == FillArea(FillBhk(DropNa(s), cols), cols)

----------------------------------------------------------------------------
(* clean_price: quartiles by linear interpolation, in quarters of a        *)
(* currency unit (Series.quantile, interpolation='linear')                 *)

\* 4 * quantile(q4 / 4) of the non-missing prices; h = (n - 1) * q4 / 4
Quantile4(s, q4) ==
    LET n    == Cardinality(Present(s, "price"))
        h4   == (n - 1) * q4
        lo   == h4 \div 4 + 1
        frac == h4 % 4
    IN  IF frac = 0 THEN 4 * Kth(s, "price", lo)
        ELSE 4 * Kth(s, "price", lo)
             + frac * (Kth(s, "price", lo + 1) - Kth(s, "price", lo))

Q1x4(s) == Quantile4(s, 1)
Q3x4(s) == Quantile4(s, 3)
IQRx4(s) == Q3x4(s) - Q1x4(s)

LowerBound4SignSlip(s) == Q1x4(s) + 3 * IQRx4(s)

LowerBound4(s) == Q1x4(s) - 3 * IQRx4(s)

UpperBound4NoSpread(s) == Q3x4(s)

UpperBound4(s) == Q3x4(s) + 3 * IQRx4(s)

\* the two comparisons joined with | instead of &
InPriceBoundsEither(s, r) ==
    /\ Values(s, "price") # {}
    /\ ~IsNull(r.price)
    /\ \/ 4 * Val(r.price) >= LowerBound4(s)
       \/ 4 * Val(r.price) <= UpperBound4(s)

\* the quantile of a column without a value is NaN, and every comparison
\* with NaN (a NaN bound or a missing price) is False
InPriceBounds(s, r) ==
    /\ Values(s, "price") # {}
    /\ ~IsNull(r.price)
    /\ 4 * Val(r.price) >= LowerBound4(s)
    /\ 4 * Val(r.price) <= UpperBound4(s)

FilterPrice(s) == SelectSeq(s, LAMBDA r : InPriceBounds(s, r))

----------------------------------------------------------------------------
(* clean_text_fields *)

\* the .str accessor leaves a missing cell missing
CleanTitle(c) == IF IsNull(c) THEN None ELSE Some(Squeeze(Val(c)))
CleanLocation(c) == IF IsNull(c) THEN None ELSE Some(TitleCase(Squeeze(Val(c))))

CleanText(s) ==
    [i \in 1..Len(s) |->
        [s[i] EXCEPT !.title = CleanTitle(@), !.location = CleanLocation(@)]]

----------------------------------------------------------------------------
(* calculate_derived_metrics *)

\* numpy's round: to the nearest integer, a tie to the even one.  d > 0.
RoundHalfEven(n, d) ==
    LET q == n \div d
        r == n % d
    IN  IF 2 * r < d THEN q
        ELSE IF 2 * r > d THEN q + 1
        ELSE IF q % 2 = 0 THEN q ELSE q + 1

Sign(x) == IF x > 0 THEN 1 ELSE IF x < 0 THEN -1 ELSE 0

Finite(c) == [inf |-> 0, c |-> c]
Infinite(sign) == [inf |-> sign, c |-> 0]

QuotientTruncated(price, area) ==
    IF area = 0 THEN (IF price = 0 THEN None ELSE Some(Infinite(Sign(price))))
    ELSE Some(Finite(Sign(price) * Sign(area)
                     * ((200 * Abs(price)) \div Abs(area))))

\* (price / area_sqft).round(2) in hundredths, area in half square feet:
\* x / 0 is inf or -inf, 0 / 0 is NaN
Quotient(price, area) ==
    IF area = 0 THEN (IF price = 0 THEN None ELSE Some(Infinite(Sign(price))))
    ELSE IF area > 0 THEN Some(Finite(RoundHalfEven(200 * price, area)))
    ELSE Some(Finite(RoundHalfEven(-200 * price, -area)))

PricePerSqft(r) ==
    IF IsNull(r.price) \/ IsNull(r.area_sqft) THEN None
    ELSE Quotient(Val(r.price), Val(r.area_sqft))

DerivedMetrics(s, cols) ==
    IF "price" \in cols /\ "area_sqft" \in cols
    THEN [i \in 1..Len(s) |-> [s[i] EXCEPT !.price_per_sqft = PricePerSqft(s[i])]]
    ELSE s

DerivedColumns(cols) ==
    IF "price" \in cols /\ "area_sqft" \in cols
    THEN cols \cup {"price_per_sqft"} ELSE cols

----------------------------------------------------------------------------
(* add_furnishing_status *)

furnishing_options == {"Unfurnished", "Semi-Furnished", "Fully Furnished"}

\* np.random.choice(furnishing_options, size=len(df)): every assignment
FurnishingDraws(s) ==
    {[i \in 1..Len(s) |-> [s[i] EXCEPT !.furnishing = Some(d[i])]] :
        d \in [1..Len(s) -> furnishing_options]}

FurnishingFillMissing(s, cols) ==
    {[i \in 1..Len(s) |->
        IF IsNull(s[i].furnishing) THEN t[i] ELSE s[i]] : t \in FurnishingDraws(s)}

FurnishingSkipped(s, cols) == {s}

\* the datasets the stage may leave: the column is drawn only when absent
WithFurnishing(s, cols) ==
    IF "furnishing" \notin cols THEN FurnishingDraws(s) ELSE {s}

----------------------------------------------------------------------------
(* validate_data *)

\* (self.df[f] < x).any() and (self.df[f] > x).any(): a missing cell
\* compares False
AnyBelow(s, f, x) == \E i \in Present(s, f) : Val(s[i][f]) < x
AnyAbove(s, f, x) == \E i \in Present(s, f) : Val(s[i][f]) > x

\* an if / elif chain: only the first applicable warning
IssuesFirstOnly(s, cols) ==
    IF AnyBelow(s, "price", 0) THEN <<"Negative prices found">>
    ELSE IF "area_sqft" \in cols /\ AnyBelow(s, "area_sqft", 0)
    THEN <<"Negative area values found">>
    ELSE IF AnyBelow(s, "price", 1000) THEN <<"Suspiciously low prices found">>
    ELSE IF AnyAbove(s, "price", 10000000)
    THEN <<"Suspiciously high prices found">>
    ELSE <<>>

Issues(s, cols) ==
    (IF AnyBelow(s, "price", 0)
     THEN <<"Negative prices found">> ELSE <<>>)
    \o (IF "area_sqft" \in cols /\ AnyBelow(s, "area_sqft", 0)
        THEN <<"Negative area values found">> ELSE <<>>)
    \o (IF AnyBelow(s, "price", 1000)
        THEN <<"Suspiciously low prices found">> ELSE <<>>)
    \o (IF AnyAbove(s, "price", 10000000)
        THEN <<"Suspiciously high prices found">> ELSE <<>>)

----------------------------------------------------------------------------
(* The datasets a run is given.  load_data reads any CSV; the families     *)
(* below are the ones the pipeline's cases need.                           *)

BaseColumns == {"title", "price", "location"}

Row(title, location, price, bhk, area, furnishing) ==
    [title |-> title, location |-> location, price |-> price, bhk |-> bhk,
     area_sqft |-> area, furnishing |-> furnishing, price_per_sqft |-> None]

\* i-th of a run of distinct titles: "a", "aa", "aaa", ...
TitleOf(i) == Some([j \in 1..i |-> "a"])
LocationX == Some(<<"x">>)
Semi == Some("Semi-Furnished")

\* the file holds `data` under the header `cols`, and can be read
Loaded(data, cols) ==
    /\ raw = data
    /\ rawcols = cols
    /\ readable = TRUE

\* free text with the whitespace and case the normalizer acts on
TextTitles == {None, Some(<<"a">>), Some(<<"a", " ">>)}
TextLocations ==
    {None, Some(<<"x">>), Some(<<"X">>), Some(<<"a", " ", "\t", "b", "X">>)}

TextPrices == {Some(35000), Some(36000)}

TextData ==
    \E n \in 0..MaxTextRecs :
    \E c \in [1..n -> TextTitles \X TextLocations \X TextPrices] :
        Loaded([i \in 1..n |-> Row(c[i][1], c[i][2], c[i][3], None, None, Semi)],
               BaseColumns \cup {"furnishing"})

PriceCells == {Some(-500), Some(800), Some(35000), Some(20000000)}

PriceData ==
    \E n \in 0..MaxPriceRecs : \E c \in [1..n -> PriceCells] :
        Loaded([i \in 1..n |-> Row(TitleOf(i), LocationX, c[i], None, None, Semi)],
               BaseColumns \cup {"furnishing"})

\* bhk and area_sqft cells of a row; areas are whole square feet, held in
\* halves (1000 and 2400 sqft).  A frame without the column holds None.
OptionalCells == {<<None, None>>, <<Some(1), Some(2000)>>, <<Some(2), Some(4800)>>}

ImputeCells(opt) ==
    {<<p, IF "bhk" \in opt THEN x[1] ELSE None,
          IF "area_sqft" \in opt THEN x[2] ELSE None>> :
        p \in {None, Some(35000)}, x \in OptionalCells}

ImputeData ==
    \E opt \in SUBSET {"bhk", "area_sqft"} :
    \E n \in 0..MaxRecs :
    \E c \in [1..n -> ImputeCells(opt)] :
        Loaded([i \in 1..n |->
                   Row(TitleOf(i), LocationX, c[i][1], c[i][2], c[i][3], Semi)],
               BaseColumns \cup {"furnishing"} \cup opt)

\* 0, 8 and 1200 sqft, and a negative area
MetricPrices == {Some(-7), Some(0), Some(1), Some(35000)}
MetricAreas == {None, Some(0), Some(16), Some(2400), Some(-16)}

MetricData ==
    \E n \in 0..MaxMetricRecs : \E c \in [1..n -> MetricPrices \X MetricAreas] :
        Loaded([i \in 1..n |->
                   Row(TitleOf(i), LocationX, c[i][1], None, c[i][2], Semi)],
               BaseColumns \cup {"area_sqft", "furnishing"})

FurnishingCells == {None} \cup {Some(o) : o \in furnishing_options}

FurnishingData ==
    \E opt \in SUBSET {"furnishing"} :
    \E n \in 0..MaxRecs :
    \E c \in [1..n -> IF "furnishing" \in opt THEN FurnishingCells ELSE {None}] :
        Loaded([i \in 1..n |->
                   Row(TitleOf(i), LocationX, Some(35000), None, None, c[i])],
               BaseColumns \cup opt)

\* one record whose title and location are any text of up to MaxStrLen
\* characters (a CSV field that is empty is read as missing, not as "")
TextAlphabet == {" ", "\t", "a", "B"}

LongTextData ==
    \E n \in 1..MaxStrLen : \E s \in [1..n -> TextAlphabet] :
        Loaded(<<Row(Some(s), Some(s), Some(35000), None, None, Semi)>>,
               BaseColumns \cup {"furnishing"})

\* ten distinct listings with the price column of the spec's scenario B
ScenarioBPrices ==
    <<15000, 18000, 25000, 28000, 35000, 68000, 75000, 95000, 150000, 5000000>>

ScenarioBData ==
    Loaded([i \in 1..Len(ScenarioBPrices) |->
               Row(TitleOf(i), LocationX, Some(ScenarioBPrices[i]), None, None, Semi)],
           BaseColumns \cup {"furnishing"})

\* a file whose header lacks some of title, price, location, with at most
\* one row; a cell of a column the file lacks is None
MissingColumnData ==
    \E cols \in (SUBSET BaseColumns) \ {BaseColumns} :
    \E n \in 0..1 :
        Loaded([i \in 1..n |->
                   Row(IF "title" \in cols THEN TitleOf(i) ELSE None,
                       IF "location" \in cols THEN LocationX ELSE None,
                       IF "price" \in cols THEN Some(35000) ELSE None,
                       None, None, None)],
               cols)

\* a file pd.read_csv cannot read (absent, not a CSV)
UnreadableSource ==
    /\ raw = <<>>
    /\ rawcols = {}
    /\ readable = FALSE

\* a dict without an entry
EmptyCache == [k \in {} |-> None]

\* a geocoder constructed on no cache file, with no call made
GeocoderAtRest ==
    /\ cache = EmptyCache
    /\ cache_file = EmptyCache
    /\ gpc = "idle"
    /\ cache_key = <<>>
    /\ attempt = 0
    /\ result = None
    /\ outcome = ""
    /\ lookups = 0
    /\ cacheAtCall = EmptyCache
    /\ loaded = EmptyCache
    /\ succeeded = {}

Init ==
    /\ GeocoderAtRest
    /\ \/ TextData
       \/ PriceData
       \/ ImputeData
       \/ MetricData
       \/ FurnishingData
       \/ LongTextData
       \/ ScenarioBData
       \/ MissingColumnData
       \/ UnreadableSource
    /\ df = <<>>
    /\ columns = {}
    /\ pc = "load_data"
    /\ issues = <<>>
    /\ prev = <<>>
    /\ prevcols = {}
    /\ raisedIn = ""
    /\ saved = <<>>

----------------------------------------------------------------------------
(* The run: load_data, then the stages of process_all in order *)

\* a stage starts: it is the one process_all runs next, and the dataset it
\* is given is kept as history
Enter(stage) ==
    /\ pc = stage
    /\ prev' = df
    /\ prevcols' = columns
    /\ UNCHANGED <<raw, rawcols, readable>>
    /\ UNCHANGED gvars

\* the step returns and `next` follows
Goto(next) ==
    /\ pc' = next
    /\ UNCHANGED raisedIn

\* the step raises: nothing catches it, the run ends there
Raise(stage) ==
    /\ pc' = "raised"
    /\ raisedIn' = stage

\* pd.read_csv raises on a file it cannot read; it accepts any header
LoadData ==
    /\ Enter("load_data")
    /\ IF readable
       THEN /\ df' = raw
            /\ columns' = rawcols
            /\ Goto("remove_duplicates")
       ELSE /\ UNCHANGED <<df, columns>>
            /\ Raise("load_data")
    /\ UNCHANGED <<issues, saved>>

\* drop_duplicates raises KeyError when a subset column is absent
RemoveDuplicates ==
    /\ Enter("remove_duplicates")
    /\ IF {"title", "location"} \subseteq columns
       THEN /\ df' = DropDuplicates(df)
            /\ Goto("handle_missing_values")
       ELSE /\ UNCHANGED df
            /\ Raise("remove_duplicates")
    /\ UNCHANGED <<columns, issues, saved>>

\* dropna raises KeyError when a critical column is absent; otherwise the
\* rows are dropped before mode()[0] can raise
HandleMissingValues ==
    /\ Enter("handle_missing_values")
    /\ IF ~(CriticalFields \subseteq columns)
       THEN /\ UNCHANGED df
            /\ Raise("handle_missing_values")
       ELSE IF ModeRaises(DropNa(df), columns)
       THEN /\ df' = DropNa(df)
            /\ Raise("handle_missing_values")
       ELSE /\ df' = HandleMissing(df, columns)
            /\ Goto("clean_price")
    /\ UNCHANGED <<columns, issues, saved>>

CleanPrice ==
    /\ Enter("clean_price")
    /\ df' = (IF "price" \in columns THEN FilterPrice(df) ELSE df)
    /\ Goto("clean_text_fields")
    /\ UNCHANGED <<columns, issues, saved>>

CleanTextFields ==
    /\ Enter("clean_text_fields")
    /\ df' = CleanText(df)
    /\ Goto("calculate_derived_metrics")
    /\ UNCHANGED <<columns, issues, saved>>

CalculateDerivedMetrics ==
    /\ Enter("calculate_derived_metrics")
    /\ df' = DerivedMetrics(df, columns)
    /\ columns' = DerivedColumns(columns)
    /\ Goto("add_furnishing_status")
    /\ UNCHANGED <<issues, saved>>

AddFurnishingStatus ==
    /\ Enter("add_furnishing_status")
    /\ df' \in WithFurnishing(df, columns)
    /\ columns' = columns \cup {"furnishing"}
    /\ Goto("validate_data")
    /\ UNCHANGED <<issues, saved>>

\* the stage also removes the rows with a negative price
ValidateDataRejecting ==
    /\ Enter("validate_data")
    /\ issues' = Issues(df, columns)
    /\ df' = SelectSeq(df, LAMBDA r : Val(r.price) >= 0)
    /\ Goto("done")
    /\ UNCHANGED <<columns, saved>>

\* the warnings are printed and self.df is returned as it is
ValidateData ==
    /\ Enter("validate_data")
    /\ issues' = Issues(df, columns)
    /\ Goto("done")
    /\ UNCHANGED <<df, columns, saved>>

\* __main__ saves what process_all left, whatever validate_data printed
SaveProcessedData ==
    /\ Enter("done")
    /\ saved' = df
    /\ Goto("saved")
    /\ UNCHANGED <<df, columns, issues>>

Next ==
    \/ LoadData
    \/ RemoveDuplicates
    \/ HandleMissingValues
    \/ CleanPrice
    \/ CleanTextFields
    \/ CalculateDerivedMetrics
    \/ AddFurnishingStatus
    \/ ValidateData
    \/ SaveProcessedData

Spec == Init /\ [][Next]_vars

----------------------------------------------------------------------------
(* LocationGeocoder (src/src/geocoder.py): geocode_location *)

max_retries == 3

\* text as a sequence of pieces; a location or a city may itself hold ", "
Locations == {<<"Saket">>, <<"Dwarka">>, <<"Saket", ", ", "Delhi">>}
Cities == {<<"Delhi">>, <<"Delhi", ", ", "Delhi">>}
Country == <<"India">>

\* f"{location}, {city}, {country}"
CacheKey(location, city, country) ==
    location \o <<", ">> \o city \o <<", ">> \o country

\* what Nominatim may answer with: a geopy Location
LocationData ==
    {[latitude |-> 28, longitude |-> 77, address |-> "Saket, New Delhi"],
     [latitude |-> 29, longitude |-> 76, address |-> "Dwarka, Delhi"]}

\* the dict built from a Location
Result(location_data) ==
    [latitude     |-> location_data.latitude,
     longitude    |-> location_data.longitude,
     display_name |-> location_data.address]

\* self.cache[k] = v
Put(c, k, v) == [x \in DOMAIN c \cup {k} |-> IF x = k THEN v ELSE c[x]]

\* the cache files a geocoder may be constructed on: none (or an empty
\* one), or the file an earlier run left with one entry
CacheFiles ==
    {EmptyCache} \cup
    {Put(EmptyCache, CacheKey(<<"Dwarka">>, <<"Delhi">>, Country), Result(d)) :
        d \in LocationData}

\* the DataProcessor is not run
ProcessorAtRest ==
    /\ df = <<>>
    /\ columns = {}
    /\ pc = "load_data"
    /\ issues = <<>>
    /\ raw = <<>>
    /\ rawcols = {}
    /\ prev = <<>>
    /\ prevcols = {}
    /\ readable = FALSE
    /\ raisedIn = ""
    /\ saved = <<>>

\* __init__: self.cache = self.load_cache()
GeoInit ==
    /\ ProcessorAtRest
    /\ cache_file \in CacheFiles
    /\ cache = cache_file
    /\ loaded = cache_file
    /\ gpc = "idle"
    /\ cache_key = <<>>
    /\ attempt = 0
    /\ result = None
    /\ outcome = ""
    /\ lookups = 0
    /\ cacheAtCall = cache_file
    /\ succeeded = {}

\* the call returns v
Return(v, how) ==
    /\ result' = v
    /\ outcome' = how
    /\ gpc' = "idle"

\* one more call of self.geolocator.geocode; the count is history and stops
\* one past max_retries
Lookup == lookups' = IF lookups > max_retries THEN lookups ELSE lookups + 1

\* geocode_location(location, city) is called, country left at its default
Call ==
    /\ gpc = "idle"
    /\ \E location \in Locations : \E city \in Cities :
           cache_key' = CacheKey(location, city, Country)
    /\ gpc' = "check_cache"
    /\ cacheAtCall' = cache
    /\ lookups' = 0
    /\ attempt' = 0
    /\ UNCHANGED <<cache, cache_file, result, outcome, loaded, succeeded>>
    /\ UNCHANGED dvars

\* lines 34-35: a cached key is answered from the cache; line 39 otherwise
CheckCache ==
    /\ gpc = "check_cache"
    /\ IF cache_key \in DOMAIN cache
       THEN Return(Some(cache[cache_key]), "cached")
       ELSE /\ gpc' = "attempt"
            /\ UNCHANGED <<result, outcome>>
    /\ UNCHANGED <<cache, cache_file, cache_key, attempt, lookups, cacheAtCall, loaded, succeeded>>
    /\ UNCHANGED dvars

\* the result is cached in memory but save_cache is not called
GeocodeFoundUnsaved ==
    /\ gpc = "attempt"
    /\ \E location_data \in LocationData :
           /\ cache' = Put(cache, cache_key, Result(location_data))
           /\ Return(Some(Result(location_data)), "found")
    /\ Lookup
    /\ succeeded' = succeeded \cup {cache_key}
    /\ UNCHANGED <<cache_file, cache_key, attempt, cacheAtCall, loaded>>
    /\ UNCHANGED dvars

\* lines 42-56: the service answers with a place; the result is cached,
\* the cache saved, the result returned
GeocodeFound ==
    /\ gpc = "attempt"
    /\ \E location_data \in LocationData :
           /\ cache' = Put(cache, cache_key, Result(location_data))
           /\ cache_file' = Put(cache, cache_key, Result(location_data))
           /\ Return(Some(Result(location_data)), "found")
    /\ Lookup
    /\ succeeded' = succeeded \cup {cache_key}
    /\ UNCHANGED <<cache_key, attempt, cacheAtCall, loaded>>
    /\ UNCHANGED dvars

\* lines 57-59: the service answers None; the call returns None
GeocodeNotFound ==
    /\ gpc = "attempt"
    /\ Return(None, "not_found")
    /\ Lookup
    /\ UNCHANGED <<cache, cache_file, cache_key, attempt, cacheAtCall, loaded, succeeded>>
    /\ UNCHANGED dvars

\* a while True loop: an error is retried whatever the number of attempts
GeocodeErrorNoLimit ==
    /\ gpc = "attempt"
    /\ attempt' = attempt
    /\ UNCHANGED <<gpc, result, outcome>>
    /\ Lookup
    /\ UNCHANGED <<cache, cache_file, cache_key, cacheAtCall, loaded, succeeded>>
    /\ UNCHANGED dvars

\* lines 61-65: GeocoderTimedOut or GeocoderServiceError is caught and the
\* loop goes on; when range(max_retries) is exhausted the call returns None
GeocodeError ==
    /\ gpc = "attempt"
    /\ attempt' = attempt + 1
    /\ IF attempt + 1 < max_retries
       THEN UNCHANGED <<gpc, result, outcome>>
       ELSE Return(None, "gave_up")
    /\ Lookup
    /\ UNCHANGED <<cache, cache_file, cache_key, cacheAtCall, loaded, succeeded>>
    /\ UNCHANGED dvars

\* the steps of a call once it is made
CallStep == CheckCache \/ GeocodeFound \/ GeocodeNotFound \/ GeocodeError

GeoNext ==
    \/ Call
    \/ CheckCache
    \/ GeocodeFound
    \/ GeocodeNotFound
    \/ GeocodeError

GeoSpec == GeoInit /\ [][GeoNext]_vars

\* a call that was made runs on: the service answers or times out within
\* timeout=10, and the sleeps end
GeoFairSpec == GeoSpec /\ WF_vars(CallStep)

\* the call has returned
Returned == gpc = "idle" /\ outcome # ""

----------------------------------------------------------------------------
(* Where the run stands *)

AfterRemoveDuplicates == pc = "handle_missing_values"
AfterHandleMissingValues == pc = "clean_price"
AfterCleanPrice == pc = "clean_text_fields"
AfterCleanTextFields == pc = "calculate_derived_metrics"
AfterCalculateDerivedMetrics == pc = "add_furnishing_status"
AfterAddFurnishingStatus == pc = "validate_data"
Completed == pc = "done"
\* handle_missing_values has returned
PastHandleMissingValues ==
    pc \in {"clean_price", "clean_text_fields", "calculate_derived_metrics",
            "add_furnishing_status", "validate_data", "done", "saved"}
\* the file can be read and its header holds the required columns
WellFormedSource == readable /\ BaseColumns \subseteq rawcols

Rows(s) == 1..Len(s)
SameKey(r, q) == r.title = q.title /\ r.location = q.location
KeysDistinct(s) == \A i, j \in Rows(s) : i < j => ~SameKey(s[i], s[j])
Column(s, f) == [i \in Rows(s) |-> s[i][f]]

\* the rows of s without field f, to compare everything but that field
Without(s, f) == [i \in Rows(s) |-> [s[i] EXCEPT ![f] = None]]

\* the loaded file is the ten listings of the end-to-end scenario B
ScenarioB == Column(raw, "price") = [i \in 1..10 |-> Some(ScenarioBPrices[i])]

\* the rows of s in the order p, a permutation of its row numbers
Reordered(s, p) == [i \in Rows(s) |-> s[p[i]]]

\* the stages of process_all that draw nothing at random, composed
Pipeline(s, cols) ==
    DerivedMetrics(CleanText(FilterPrice(HandleMissing(DropDuplicates(s), cols))), cols)

----------------------------------------------------------------------------
(* C1: after process_all completes, no two records of the final dataset    *)
(* share the same (title, location) pair, the values taken as they stand   *)
(* in the final dataset, that is after text normalization.                 *)
C1_FinalKeysDistinct == Completed => KeysDistinct(df)

(* C2: immediately after remove_duplicates no two records share the same   *)
(* (title, location) pair; two identical records leave exactly one         *)
(* survivor.                                                               *)
C2_DedupKeysDistinct ==
    AfterRemoveDuplicates =>
        /\ KeysDistinct(df)
        /\ (Len(prev) = 2 /\ prev[1] = prev[2]) => df = <<prev[1]>>

\* two identical listings {title: "a", location: "x"} went in, one came out
C2_Witness ==
    /\ AfterRemoveDuplicates
    /\ Len(prev) = 2 /\ prev[1] = prev[2]
    /\ prev[1].title = Some(<<"a">>) /\ prev[1].location = Some(<<"x">>)
    /\ Len(df) = 1

(* C3: after handle_missing_values every remaining record has non-null     *)
(* title, price and location, and this still holds for every record of the *)
(* dataset process_all returns.                                            *)
C3_CriticalFieldsPresent ==
    PastHandleMissingValues =>
        \A i \in Rows(df) :
            ~IsNull(df[i].title) /\ ~IsNull(df[i].price) /\ ~IsNull(df[i].location)

\* a run that completed, having dropped a record loaded without a price and
\* kept another
C3_Witness ==
    /\ Completed
    /\ \E i \in Rows(raw) : IsNull(raw[i].price) /\ ~IsNull(raw[i].title)
    /\ Len(df) > 0 /\ Len(df) < Len(raw)

(* C4: for a dataset of at least 4 records, after clean_price the records  *)
(* left are exactly those whose price lies within [Q1 - 3*IQR, Q3 + 3*IQR],*)
(* Q1, Q3 the linear-interpolation quartiles of the price column before    *)
(* the filter ran: every one left is inside, every one inside is kept.     *)
C4_OutlierBounds ==
    (AfterCleanPrice /\ Len(prev) >= 4) =>
        df = SelectSeq(prev, LAMBDA r :
                /\ 4 * Val(r.price) >= Q1x4(prev) - 3 * (Q3x4(prev) - Q1x4(prev))
                /\ 4 * Val(r.price) <= Q3x4(prev) + 3 * (Q3x4(prev) - Q1x4(prev)))

\* at least 4 records with a positive IQR, an outlier removed, others kept
C4_Witness ==
    /\ AfterCleanPrice
    /\ Len(prev) >= 4
    /\ Q3x4(prev) > Q1x4(prev)
    /\ Len(df) > 0 /\ Len(df) < Len(prev)

(* C5: for a dataset of fewer than 4 records (0, 1, 2 or 3), clean_price   *)
(* removes no record, whatever the prices are.                             *)
C5_SmallDatasetUntouched == (AfterCleanPrice /\ Len(prev) < 4) => df = prev

\* three records with prices far apart went through clean_price
C5_Witness ==
    /\ AfterCleanPrice
    /\ Len(prev) = 3
    /\ Values(prev, "price") = {-500, 800, 20000000}
    /\ df = prev

(* C6: after calculate_derived_metrics every record whose area_sqft is 0   *)
(* or missing has price_per_sqft unset (no value, in particular no         *)
(* infinite one), and the stage completes without a division-by-zero       *)
(* failure.                                                                *)
C6_ZeroAreaLeavesUnset ==
    AfterCalculateDerivedMetrics =>
        \A i \in Rows(df) :
            (IsNull(df[i].area_sqft) \/ df[i].area_sqft = Some(0))
                => IsNull(df[i].price_per_sqft)

(* C7: after calculate_derived_metrics every record with a price and an    *)
(* area_sqft > 0 has price_per_sqft equal to price / area_sqft rounded to  *)
(* 2 decimals: a finite number of hundredths c with                        *)
(* |price / area - c / 100| <= 0.005 (area is in half square feet).        *)
C7_PricePerSqftRounded ==
    AfterCalculateDerivedMetrics =>
        \A i \in Rows(df) :
            (~IsNull(df[i].price) /\ ~IsNull(df[i].area_sqft)
             /\ Val(df[i].area_sqft) > 0)
                => /\ ~IsNull(df[i].price_per_sqft)
                   /\ Val(df[i].price_per_sqft).inf = 0
                   /\ 2 * Abs(200 * Val(df[i].price)
                              - Val(df[i].price_per_sqft).c * Val(df[i].area_sqft))
                          <= Val(df[i].area_sqft)

\* 35000 / 1200 sqft = 29.1666..., stored as 29.17
C7_Witness ==
    /\ AfterCalculateDerivedMetrics
    /\ \E i \in Rows(df) :
           /\ df[i].price = Some(35000)
           /\ df[i].area_sqft = Some(2400)
           /\ df[i].price_per_sqft = Some(Finite(2917))

(* C8: no stage raises on an empty dataset: process_all on a dataset of    *)
(* zero records, with any permitted column set (bhk and area_sqft          *)
(* included), completes, returns an empty dataset, and the validator       *)
(* reports zero warnings.                                                  *)
C8_EmptyDatasetCompletes ==
    (WellFormedSource /\ raw = <<>>) =>
        /\ pc # "raised"
        /\ Completed => (df = <<>> /\ issues = <<>>)

C10_FurnishingFrame ==
    AfterAddFurnishingStatus =>
        /\ Len(df) = Len(prev)
        /\ "furnishing" \notin prevcols =>
               /\ "furnishing" \in columns
               /\ \A i \in Rows(df) :
                      /\ ~IsNull(df[i].furnishing)
                      /\ Val(df[i].furnishing) \in furnishing_options
        /\ "furnishing" \in prevcols =>
               /\ "furnishing" \in columns
               /\ Column(df, "furnishing") = Column(prev, "furnishing")

\* the stage ran on a dataset whose furnishing column had a missing value
\* beside a present one
C10_Witness ==
    /\ AfterAddFurnishingStatus
    /\ "furnishing" \in prevcols
    /\ \E i, j \in Rows(prev) :
           IsNull(prev[i].furnishing) /\ ~IsNull(prev[j].furnishing)

(* C11: if the bhk or area_sqft column is entirely missing (the column is  *)
(* absent, or it exists but has no non-missing value after the drop       *)
(* phase), handle_missing_values skips imputation for that column and      *)
(* completes without raising, leaving the column as it was.                *)
C11_EntirelyMissingSkipped ==
    (/\ WellFormedSource
     /\ \/ AfterHandleMissingValues
        \/ pc = "raised" /\ raisedIn = "handle_missing_values") =>
        \A f \in {"bhk", "area_sqft"} :
            (f \notin prevcols \/ Values(DropNa(prev), f) = {}) =>
                /\ pc # "raised"
                /\ Column(df, f) = Column(DropNa(prev), f)

(* C12: the loader fails with a load error when the source cannot be read  *)
(* or when any of the required columns title, price, location is absent    *)
(* from the source; the run is then aborted at load time, before any       *)
(* cleaning stage runs.                                                    *)
C12_LoadRejectsBadSource ==
    (~WellFormedSource /\ pc # "load_data") =>
        (pc = "raised" /\ raisedIn = "load_data")

(* C13: clean_text_fields is idempotent: applying it to the dataset it     *)
(* produced changes no title and no location.                              *)
C13_CleanTextIdempotent ==
    AfterCleanTextFields =>
        /\ Column(CleanText(df), "title") = Column(df, "title")
        /\ Column(CleanText(df), "location") = Column(df, "location")

\* the stage turned " a<TAB> B" into "a B" (title) and "A B" (location)
C13_Witness ==
    /\ AfterCleanTextFields
    /\ Len(df) = 1
    /\ prev[1].title = Some(<<" ", "a", "\t", " ", "B">>)
    /\ prev[1].location = prev[1].title
    /\ df[1].title = Some(<<"a", " ", "B">>)
    /\ df[1].location = Some(<<"A", " ", "B">>)

(* C14: validate_data collects exactly the applicable warnings: 'Negative  *)
(* prices found' iff some price < 0, 'Negative area values found' iff the  *)
(* area_sqft column is present and some area_sqft < 0, 'Suspiciously low   *)
(* prices found' iff some price < 1000, 'Suspiciously high prices found'   *)
(* iff some price > 10,000,000; each check fires independently of the      *)
(* others, and a single record with price 800 yields the low warning.      *)
C14_WarningsExact ==
    Completed =>
        /\ "Negative prices found" \in Range(issues)
               <=> \E i \in Rows(df) : ~IsNull(df[i].price) /\ Val(df[i].price) < 0
        /\ "Negative area values found" \in Range(issues)
               <=> /\ "area_sqft" \in columns
                   /\ \E i \in Rows(df) :
                          ~IsNull(df[i].area_sqft) /\ Val(df[i].area_sqft) < 0
        /\ "Suspiciously low prices found" \in Range(issues)
               <=> \E i \in Rows(df) : ~IsNull(df[i].price) /\ Val(df[i].price) < 1000
        /\ "Suspiciously high prices found" \in Range(issues)
               <=> \E i \in Rows(df) :
                       ~IsNull(df[i].price) /\ Val(df[i].price) > 10000000
        /\ Range(issues) \subseteq
               {"Negative prices found", "Negative area values found",
                "Suspiciously low prices found", "Suspiciously high prices found"}
        /\ (Len(df) = 1 /\ df[1].price = Some(800))
               => issues = <<"Suspiciously low prices found">>

\* a negative price and a negative area gave three warnings at once
C14_Witness ==
    /\ Completed
    /\ issues = <<"Negative prices found", "Negative area values found",
                  "Suspiciously low prices found">>

(* C15: validate_data is read-only: whether or not warnings are produced,  *)
(* the dataset after it is identical to the dataset before it (same        *)
(* records, order and field values), no record is rejected, and the        *)
(* warnings never block the save that follows.                             *)
C15_ValidateReadOnly ==
    /\ Completed =>
           /\ df = prev
           /\ columns = prevcols
           /\ ENABLED SaveProcessedData
    /\ pc = "saved" => saved = df

\* a dataset that drew warnings was saved whole
C15_Witness ==
    /\ pc = "saved"
    /\ Len(issues) >= 2
    /\ Len(saved) >= 2
    /\ \E i \in Rows(saved) : Val(saved[i].price) < 0

(* C16: in handle_missing_values the imputation statistics (bhk mode,      *)
(* area_sqft median) are computed from the dataset as it is after the drop *)
(* phase: values carried by records dropped for a missing title, price or  *)
(* location never influence the imputed value.                             *)
C16_StatisticsAfterDrop ==
    AfterHandleMissingValues =>
        LET d == DropNa(prev) IN
        /\ Len(df) = Len(d)
        /\ \A i \in Rows(d) :
               /\ ("bhk" \in columns /\ IsNull(d[i].bhk))
                      => df[i].bhk = Some(Mode0(d, "bhk"))
               /\ ("area_sqft" \in columns /\ IsNull(d[i].area_sqft)
                       /\ Values(d, "area_sqft") # {})
                      => df[i].area_sqft = Some(Median(d, "area_sqft"))

\* the dropped first row would have made the mode 1 and the median 1700
\* sqft; the third row was filled with 2 and 2400 sqft
C16_Witness ==
    /\ AfterHandleMissingValues
    /\ Len(prev) = 3
    /\ IsNull(prev[1].price) /\ prev[1].bhk = Some(1) /\ prev[1].area_sqft = Some(2000)
    /\ prev[2].bhk = Some(2) /\ prev[2].area_sqft = Some(4800)
    /\ IsNull(prev[3].bhk) /\ IsNull(prev[3].area_sqft)
    /\ Len(df) = 2
    /\ df[2].bhk = Some(2) /\ df[2].area_sqft = Some(4800)

(* C17: remove_duplicates keeps, for each (title, location) key, exactly   *)
(* the first record with that key in original order and discards all later *)
(* ones; the survivors keep their relative order and their field values.   *)
C17_KeepsFirstInOrder ==
    AfterRemoveDuplicates =>
        LET firsts == {i \in Rows(prev) :
                          \A j \in 1..(i - 1) : ~SameKey(prev[j], prev[i])}
        IN  /\ Len(df) = Cardinality(firsts)
            /\ \A i \in firsts :
                   df[Cardinality({j \in firsts : j <= i})] = prev[i]

\* of two rows with one key and different prices, the first one was kept
C17_Witness ==
    /\ AfterRemoveDuplicates
    /\ Len(prev) = 2
    /\ SameKey(prev[1], prev[2])
    /\ prev[1].price # prev[2].price
    /\ df = <<prev[1]>>

(* C18: for the ten distinct listings with prices [15000, 18000, 25000,    *)
(* 28000, 35000, 68000, 75000, 95000, 150000, 5000000] the outlier filter  *)
(* removes the record with price 5000000 and only that record, and the     *)
(* validator at the end of the pipeline raises no 'Suspiciously high       *)
(* prices found' warning.                                                  *)
C18_ScenarioB ==
    ScenarioB =>
        /\ AfterCleanPrice => (prev = raw /\ df = SubSeq(raw, 1, 9))
        /\ Completed =>
               /\ Column(df, "price") = SubSeq(Column(raw, "price"), 1, 9)
               /\ "Suspiciously high prices found" \notin Range(issues)

\* the scenario ran to its end: nine listings left, no warning at all
C18_Witness ==
    /\ ScenarioB
    /\ Completed
    /\ Len(df) = 9
    /\ \A i \in Rows(df) : Val(df[i].price) # 5000000
    /\ issues = <<>>

(* C19: determinism: for a raw input that already has a furnishing column  *)
(* the final dataset and the warning list of process_all are a function of *)
(* the input, so that two runs on the same input agree; in particular the  *)
(* bhk value imputed is the same whatever the order of the records is.     *)
C19_Deterministic ==
    "furnishing" \in rawcols =>
        /\ Completed =>
               /\ df = Pipeline(raw, rawcols)
               /\ columns = DerivedColumns(rawcols)
               /\ issues = Issues(Pipeline(raw, rawcols), DerivedColumns(rawcols))
        /\ (AfterHandleMissingValues /\ "bhk" \in columns) =>
               LET d == DropNa(prev) IN
               \A p \in Permutations(Rows(d)) : \A i \in Rows(d) :
                   IsNull(d[i].bhk) => df[i].bhk = Some(Mode0(Reordered(d, p), "bhk"))

\* bhk 2 and bhk 1 tied, 2 met first: the missing bhk was filled with 1
C19_Witness ==
    /\ AfterHandleMissingValues
    /\ "furnishing" \in rawcols
    /\ Len(prev) = 3 /\ Len(df) = 3
    /\ prev[1].bhk = Some(2) /\ prev[2].bhk = Some(1) /\ IsNull(prev[3].bhk)
    /\ df[3].bhk = Some(1)

(* C20: impute phase of handle_missing_values: when bhk has a non-missing  *)
(* value after the drop phase, every missing bhk is filled with a most     *)
(* frequent bhk value, the lowest of them when several are tied; when      *)
(* area_sqft has a non-missing value, every missing area_sqft is filled    *)
(* with the median of the non-missing values; afterwards neither column    *)
(* has a missing value and no previously non-missing value has changed.    *)
C20_ImputePhase ==
    AfterHandleMissingValues =>
        LET d     == DropNa(prev)
            n     == Cardinality(Present(d, "area_sqft"))
            AtMost(v)  == Cardinality({i \in Present(d, "area_sqft") :
                                          Val(d[i].area_sqft) <= v})
            AtLeast(v) == Cardinality({i \in Present(d, "area_sqft") :
                                          Val(d[i].area_sqft) >= v})
            lows  == {v \in Values(d, "area_sqft") : 2 * AtMost(v) >= n}
            highs == {v \in Values(d, "area_sqft") : 2 * AtLeast(v) >= n}
        IN
        /\ Len(df) = Len(d)
        /\ Without(Without(df, "bhk"), "area_sqft")
               = Without(Without(d, "bhk"), "area_sqft")
        /\ ("bhk" \in columns /\ Values(d, "bhk") # {}) =>
               \A i \in Rows(d) :
                   IF IsNull(d[i].bhk)
                   THEN \E v \in Values(d, "bhk") :
                            /\ df[i].bhk = Some(v)
                            /\ \A w \in Values(d, "bhk") :
                                   \/ Count(d, "bhk", w) < Count(d, "bhk", v)
                                   \/ Count(d, "bhk", w) = Count(d, "bhk", v) /\ v <= w
                   ELSE df[i].bhk = d[i].bhk
        /\ ("area_sqft" \in columns /\ Values(d, "area_sqft") # {}) =>
               \A i \in Rows(d) :
                   IF IsNull(d[i].area_sqft)
                   THEN \E lo \in lows : \E hi \in highs :
                            /\ \A v \in lows : lo <= v
                            /\ \A v \in highs : v <= hi
                            /\ 2 * Val(df[i].area_sqft) = lo + hi
                            /\ ~IsNull(df[i].area_sqft)
                   ELSE df[i].area_sqft = d[i].area_sqft

\* areas of 1000 and 2400 sqft: the missing one became their mean, 1700,
\* and the missing bhk the lower of the tied 1 and 2
C20_Witness ==
    /\ AfterHandleMissingValues
    /\ Len(prev) = 3 /\ Len(df) = 3
    /\ prev[1].bhk = Some(1) /\ prev[1].area_sqft = Some(2000)
    /\ prev[2].bhk = Some(2) /\ prev[2].area_sqft = Some(4800)
    /\ IsNull(prev[3].bhk) /\ IsNull(prev[3].area_sqft)
    /\ df[3].bhk = Some(1) /\ df[3].area_sqft = Some(3400)

(* C21: geocode_location and the cache.  A call whose key is already in    *)
(* the cache returns the cached result with no external lookup and leaves  *)
(* the cache as it was; the cache holds an entry for a key only if the     *)
(* entry was loaded with the cache or an external lookup for that key      *)
(* succeeded (a not-found or error outcome is never cached); and a         *)
(* successful lookup is in the cache file before the call returns.         *)
C21_CacheBehaviour ==
    /\ DOMAIN cache \subseteq DOMAIN loaded \cup succeeded
    /\ Returned =>
           /\ cache_key \in DOMAIN cacheAtCall =>
                  /\ outcome = "cached"
                  /\ result = Some(cacheAtCall[cache_key])
                  /\ lookups = 0
                  /\ cache = cacheAtCall
           /\ outcome \in {"not_found", "gave_up"} =>
                  /\ result = None
                  /\ cache = cacheAtCall
           /\ outcome = "found" =>
                  /\ cache = Put(cacheAtCall, cache_key, Val(result))
                  /\ cache_key \in DOMAIN cache_file
                  /\ cache_file[cache_key] = Val(result)
           /\ cache_file = cache

\* a key that an earlier call looked up and cached was answered from the
\* cache, after another call had ended not-found
C21_Witness ==
    /\ Returned
    /\ outcome = "cached"
    /\ lookups = 0
    /\ cache_key \notin DOMAIN loaded
    /\ cache_key \in succeeded
    /\ Cardinality(DOMAIN cache) = 2
    /\ result = Some(cache[cache_key])

\* what C22 says of every state of a call
AttemptsBounded ==
    /\ lookups <= max_retries
    /\ gpc = "attempt" => (lookups = attempt /\ attempt < max_retries)
    /\ Returned =>
           /\ outcome \in {"found", "not_found"} => lookups = attempt + 1
           /\ outcome = "gave_up" =>
                  (lookups = max_retries /\ attempt = max_retries /\ result = None)
           /\ outcome \in {"cached", "found", "not_found", "gave_up"}

(* C22: geocode_location always terminates, after at most 3 external       *)
(* lookup attempts per call: a timeout or service error is followed by a   *)
(* retry, a successful or not-found answer ends the call at once, and      *)
(* after 3 consecutive timeouts or service errors the call returns None    *)
(* rather than raising.                                                    *)
C22_TerminatesWithinRetries ==
    /\ []AttemptsBounded
    /\ (gpc # "idle") ~> (gpc = "idle")

\* three errors in a row: the call gave up and returned None
C22_Witness ==
    /\ Returned
    /\ outcome = "gave_up"
    /\ lookups = 3
    /\ result = None
    /\ cache = cacheAtCall

====
